---- MODULE Spec2Model ----
(***************************************************************************)
(* A model of the graph crate: Graph (src/src/graph/graph.rs), Vertex      *)
(* (src/src/graph/vertex.rs) and Edge (src/src/graph/edge.rs).             *)
(*                                                                         *)
(* A Graph owns a HashMap from vertex key to Vertex; each Vertex owns the  *)
(* Vec of the edges pushed onto it.  An Edge embeds clones of its two      *)
(* endpoint vertices, of which the graph code only ever reads `.value`, so *)
(* an edge is modelled by the two endpoint keys and the weight.            *)
(* The iteration order of the HashMap is unspecified: every derived        *)
(* representation takes the order as a parameter and the calling action    *)
(* chooses it nondeterministically.  A Vec is a sequence, so position i of  *)
(* the code is position i + 1 of the model.                                *)
(***************************************************************************)
EXTENDS Integers, Sequences, FiniteSets, TLC

VARIABLES
    vertices,    \* Graph.vertices: key -> the vertex's edge list (Vertex.edges)
    directed,    \* Graph.directed
    edge_count,  \* Graph.edge_count
    last,        \* the last call made on the graph and what it returned
    out,         \* the value returned by the last matrix / CSR query
    okCount,     \* history: number of add_edge calls that returned Ok
    accepted,    \* history: the edges of the add_edge calls that returned Ok
    allNew,      \* history: every add_vertex so far was given a Vertex::new vertex
    replaced,    \* history: some add_vertex replaced a vertex already in the map
    calls        \* history: number of mutating calls made so far

vars == <<vertices, directed, edge_count, last, out, okCount, accepted, allNew, replaced, calls>>

\* ---------------------------------------------------------------- bounds
\* Number of add_vertex / add_edge calls in a run.
MaxCalls == 4

\* Vertex keys the caller uses.
Keys == {"A", "B", "Z"}

\* Edge weights the caller uses (f32 values that are exact small integers).
Weights == {0, 1}

\* ---------------------------------------------------------------- data
\* Edge::new(vertex1, vertex2, weight)
Edge(v1, v2, w) == [vertex1 |-> v1, vertex2 |-> v2, weight |-> w]

Edges == {Edge(v1, v2, w) : v1 \in Keys, v2 \in Keys, w \in Weights}

\* Vertex::new(value): a vertex with an empty edge list
VertexNew(k) == [value |-> k, edges |-> <<>>]

\* Vertex::add_edge(edge): push onto the vertex's own list
VertexAddEdge(v, e) == [v EXCEPT !.edges = Append(@, e)]

\* The vertices a caller hands to add_vertex: fresh from Vertex::new, or
\* with one edge already pushed by Vertex::add_edge (Vertex.edges is public).
\* The edges a caller pushes onto a vertex before registering it.
PreloadedEdges == {Edge("A", "B", 1)}

InputVertices ==
    {VertexNew(k) : k \in Keys}
    \cup {VertexAddEdge(VertexNew(k), e) : k \in Keys, e \in PreloadedEdges}

\* Option<T>
None == <<>>
Some(x) == <<x>>

\* No query has been made since the last mutation.
NoOut == [op |-> "none", order |-> <<>>, panicked |-> FALSE, value |-> <<>>]
\* Option::unwrap() on None
Panic == [panicked |-> TRUE, value |-> <<>>]
Return(v) == [panicked |-> FALSE, value |-> v]

Ok == [ok |-> TRUE, missing |-> ""]
\* Err(format!("Vertex {} does not exist", key))
MissingVertex(key) == [ok |-> FALSE, missing |-> key]

\* ---------------------------------------------------------------- Graph
\* Graph::new(directed)
Init ==
    /\ directed \in BOOLEAN
    /\ vertices = [k \in {} |-> <<>>]
    /\ edge_count = 0
    /\ last = [op |-> "new", result |-> Ok]
    /\ out = NoOut
    /\ okCount = 0
    /\ accepted = {}
    /\ allNew = TRUE
    /\ replaced = FALSE
    /\ calls = 0

\* HashMap::insert(key, vertex): insert or overwrite
Insert(map, key, val) ==
    [k \in (DOMAIN map) \cup {key} |-> IF k = key THEN val ELSE map[k]]

\* Graph::add_vertex(vertex)
add_vertex(vertex) ==
    /\ vertices' = Insert(vertices, vertex.value, vertex.edges)
    /\ last' = [op |-> "add_vertex", result |-> Ok]
    /\ out' = NoOut
    /\ allNew' = (allNew /\ vertex.edges = <<>>)
    /\ replaced' = (replaced \/ vertex.value \in DOMAIN vertices)
    /\ calls' = calls + 1
    /\ UNCHANGED <<directed, edge_count, okCount, accepted>>

\* Mutant: an undirected edge, stored twice, is also counted twice.
AddEdgeResult_CountsCopies(vs, dir, cnt, edge) ==
    IF edge.vertex1 \notin DOMAIN vs
    THEN [vertices |-> vs, edge_count |-> cnt,
          result |-> MissingVertex(edge.vertex1)]
    ELSE LET vs1 == [vs EXCEPT ![edge.vertex1] = Append(@, edge)]
         IN  IF dir
             THEN [vertices |-> vs1, edge_count |-> cnt + 1, result |-> Ok]
             ELSE IF edge.vertex2 \notin DOMAIN vs1
                  THEN [vertices |-> vs1, edge_count |-> cnt,
                        result |-> MissingVertex(edge.vertex2)]
                  ELSE [vertices |-> [vs1 EXCEPT ![edge.vertex2] = Append(@, edge)],
                        edge_count |-> cnt + 2, result |-> Ok]

\* Mutant: in an undirected graph vertex2 is looked up and pushed onto
\* before vertex1 is looked up.
AddEdgeResult_Vertex2First(vs, dir, cnt, edge) ==
    LET vs2 == IF ~dir /\ edge.vertex2 \in DOMAIN vs
               THEN [vs EXCEPT ![edge.vertex2] = Append(@, edge)]
               ELSE vs
    IN  IF ~dir /\ edge.vertex2 \notin DOMAIN vs
        THEN [vertices |-> vs, edge_count |-> cnt,
              result |-> MissingVertex(edge.vertex2)]
        ELSE IF edge.vertex1 \notin DOMAIN vs
             THEN [vertices |-> vs2, edge_count |-> cnt,
                   result |-> MissingVertex(edge.vertex1)]
             ELSE [vertices |-> [vs2 EXCEPT ![edge.vertex1] = Append(@, edge)],
                   edge_count |-> cnt + 1, result |-> Ok]

\* Mutant: both endpoints are looked up before anything is pushed.
AddEdgeResult_Atomic(vs, dir, cnt, edge) ==
    IF edge.vertex1 \notin DOMAIN vs
    THEN [vertices |-> vs, edge_count |-> cnt,
          result |-> MissingVertex(edge.vertex1)]
    ELSE IF ~dir /\ edge.vertex2 \notin DOMAIN vs
         THEN [vertices |-> vs, edge_count |-> cnt,
               result |-> MissingVertex(edge.vertex2)]
         ELSE LET vs1 == [vs EXCEPT ![edge.vertex1] = Append(@, edge)]
              IN  [vertices |-> IF dir THEN vs1
                                ELSE [vs1 EXCEPT ![edge.vertex2] = Append(@, edge)],
                   edge_count |-> cnt + 1, result |-> Ok]

\* Mutant: the edge is never pushed onto vertex2.
AddEdgeResult_SourceOnly(vs, dir, cnt, edge) ==
    IF edge.vertex1 \notin DOMAIN vs
    THEN [vertices |-> vs, edge_count |-> cnt,
          result |-> MissingVertex(edge.vertex1)]
    ELSE LET vs1 == [vs EXCEPT ![edge.vertex1] = Append(@, edge)]
         IN  IF ~dir /\ edge.vertex2 \notin DOMAIN vs1
             THEN [vertices |-> vs1, edge_count |-> cnt,
                   result |-> MissingVertex(edge.vertex2)]
             ELSE [vertices |-> vs1, edge_count |-> cnt + 1, result |-> Ok]

\* The effect of Graph::add_edge(edge) on (vertices, edge_count) and its
\* return value.
AddEdgeResult(vs, dir, cnt, edge) ==
    LET vertex1_key == edge.vertex1
        vertex2_key == edge.vertex2
    IN  IF vertex1_key \notin DOMAIN vs
        THEN [vertices |-> vs, edge_count |-> cnt,
              result |-> MissingVertex(vertex1_key)]
        ELSE LET vs1 == [vs EXCEPT ![vertex1_key] = Append(@, edge)]
             IN  IF ~dir
                 THEN IF vertex2_key \notin DOMAIN vs1
                      THEN [vertices |-> vs1, edge_count |-> cnt,
                            result |-> MissingVertex(vertex2_key)]
                      ELSE [vertices |->
                                [vs1 EXCEPT ![vertex2_key] = Append(@, edge)],
                            edge_count |-> cnt + 1, result |-> Ok]
                 ELSE [vertices |-> vs1, edge_count |-> cnt + 1, result |-> Ok]

\* Graph::add_edge(edge)
add_edge(edge) ==
    LET r == AddEdgeResult(vertices, directed, edge_count, edge)
    IN  /\ vertices' = r.vertices
        /\ edge_count' = r.edge_count
        /\ last' = [op |-> "add_edge", result |-> r.result]
        /\ out' = NoOut
        /\ okCount' = IF r.result.ok THEN okCount + 1 ELSE okCount
        /\ accepted' = IF r.result.ok THEN accepted \cup {edge} ELSE accepted
        /\ calls' = calls + 1
        /\ UNCHANGED <<directed, allNew, replaced>>

\* ------------------------------------------------- derived representations
\* The orders in which a HashMap holding the keys S may iterate.
IterationOrders(S) ==
    {o \in [1..Cardinality(S) -> S] : \A i, j \in DOMAIN o : o[i] = o[j] => i = j}

\* index_map / vertex_index / vertex_indices: key -> position in the
\* iteration over self.vertices.keys()
IndexMap(order) ==
    [k \in {order[i] : i \in DOMAIN order} |-> CHOOSE i \in DOMAIN order : order[i] = k]

\* for vertex in self.vertices.values() { for edge in &vertex.edges { .. } }:
\* the edges in the order the nested loops visit them
RECURSIVE ScanEdges(_, _)
ScanEdges(vs, order) ==
    IF order = <<>> THEN <<>>
    ELSE vs[Head(order)] \o ScanEdges(vs, Tail(order))

\* vec![vec![x; cols]; rows]
Filled(rows, cols, x) == [i \in 1..rows |-> [j \in 1..cols |-> x]]

\* The loop body of adjacency_matrix over the scanned edges.
RECURSIVE AdjacencyFill(_, _, _, _)
AdjacencyFill(matrix, es, index_map, dir) ==
    IF es = <<>> THEN Return(matrix)
    ELSE LET edge == Head(es)
         IN  IF edge.vertex1 \notin DOMAIN index_map
                \/ edge.vertex2 \notin DOMAIN index_map
             THEN Panic
             ELSE LET i == index_map[edge.vertex1]
                      j == index_map[edge.vertex2]
                      m1 == [matrix EXCEPT ![i][j] = Some(edge.weight)]
                      m2 == IF ~dir
                            THEN [m1 EXCEPT ![j][i] = Some(edge.weight)]
                            ELSE m1
                  IN  AdjacencyFill(m2, Tail(es), index_map, dir)

\* Mutant: the mirrored cell matrix[j][i] is never written.
adjacency_matrix_OneWay(vs, dir, order) ==
    LET size == Cardinality(DOMAIN vs)
    IN  AdjacencyFill(Filled(size, size, None), ScanEdges(vs, order),
                      IndexMap(order), TRUE)

\* Graph::adjacency_matrix(), iterating the map in `order`
adjacency_matrix(vs, dir, order) ==
    LET size == Cardinality(DOMAIN vs)
    IN  AdjacencyFill(Filled(size, size, None), ScanEdges(vs, order),
                      IndexMap(order), dir)

\* The first loop of incidence_matrix: the scanned edges with every edge
\* dropped whose pair, or reversed pair, was seen before.
RECURSIVE DistinctEdges(_, _, _)
DistinctEdges(es, edges_seen, edges) ==
    IF es = <<>> THEN edges
    ELSE LET edge == Head(es)
             v1 == edge.vertex1
             v2 == edge.vertex2
         IN  IF <<v1, v2>> \notin edges_seen /\ <<v2, v1>> \notin edges_seen
             THEN DistinctEdges(Tail(es), edges_seen \cup {<<v1, v2>>},
                                Append(edges, <<v1, v2, edge.weight>>))
             ELSE DistinctEdges(Tail(es), edges_seen, edges)

\* The columns of the incidence matrix: (v1, v2, weight) per distinct edge
IncidenceEdges(vs, order) == DistinctEdges(ScanEdges(vs, order), {}, <<>>)

\* The second loop of incidence_matrix, from column edge_index on.
RECURSIVE IncidenceFill(_, _, _, _, _)
IncidenceFill(matrix, edges, edge_index, vertex_index, dir) ==
    IF edge_index > Len(edges) THEN Return(matrix)
    ELSE LET v1 == edges[edge_index][1]
             v2 == edges[edge_index][2]
             weight == edges[edge_index][3]
         IN  IF v1 \notin DOMAIN vertex_index \/ v2 \notin DOMAIN vertex_index
             THEN Panic
             ELSE LET i == vertex_index[v1]
                      j == vertex_index[v2]
                      m1 == [matrix EXCEPT ![i][edge_index] = weight]
                      m2 == IF dir
                            THEN [m1 EXCEPT ![j][edge_index] = -weight]
                            ELSE [m1 EXCEPT ![j][edge_index] = weight]
                  IN  IncidenceFill(m2, edges, edge_index + 1, vertex_index, dir)

\* Mutant: the destination row gets +weight in a directed graph too.
incidence_matrix_Unsigned(vs, dir, order) ==
    LET edges == DistinctEdges(ScanEdges(vs, order), {}, <<>>)
    IN  IncidenceFill(Filled(Cardinality(DOMAIN vs), Len(edges), 0), edges, 1,
                      IndexMap(order), FALSE)

\* Graph::incidence_matrix(), iterating the map in `order`
incidence_matrix(vs, dir, order) ==
    LET num_vertices == Cardinality(DOMAIN vs)
        edges == IncidenceEdges(vs, order)
        num_edges == Len(edges)
    IN  IncidenceFill(Filled(num_vertices, num_edges, 0), edges, 1,
                      IndexMap(order), dir)

\* The neighbours pushed for one vertex: the other endpoint of each edge.
RECURSIVE Neighbors(_, _)
Neighbors(vertex_key, es) ==
    IF es = <<>> THEN <<>>
    ELSE LET edge == Head(es)
             neighbor_value == IF edge.vertex1 = vertex_key
                               THEN edge.vertex2 ELSE edge.vertex1
         IN  <<Some(neighbor_value)>> \o Neighbors(vertex_key, Tail(es))

\* The main loop of csr_representation over the vertices still to visit:
\* pushes onto adjacents and counts into indices[vertex_index + 1].
RECURSIVE CsrScan(_, _, _, _, _)
CsrScan(vs, todo, vertex_indices, adjacents, indices) ==
    IF todo = <<>> THEN [adjacents |-> adjacents, indices |-> indices]
    ELSE LET vertex_key == Head(todo)
             vertex_index == vertex_indices[vertex_key]
         IN  CsrScan(vs, Tail(todo), vertex_indices,
                     adjacents \o Neighbors(vertex_key, vs[vertex_key]),
                     [indices EXCEPT ![vertex_index + 1] = @ + Len(vs[vertex_key])])

\* Mutant: the counts are returned without the prefix sum.
PrefixSum_Skipped(indices, i) == indices

\* for i in 1..indices.len() { indices[i] += indices[i - 1] }
RECURSIVE PrefixSum(_, _)
PrefixSum(indices, i) ==
    IF i > Len(indices) THEN indices
    ELSE PrefixSum([indices EXCEPT ![i] = @ + indices[i - 1]], i + 1)

\* Graph::csr_representation(), iterating the map in `order`
csr_representation(vs, order) ==
    LET indices0 == [i \in 1..(Cardinality(DOMAIN vs) + 1) |-> 0]
        scan == CsrScan(vs, order, IndexMap(order), <<>>, indices0)
    IN  Return([adjacents |-> Append(scan.adjacents, None),
                indices |-> PrefixSum(scan.indices, 2)])

\* A query leaves the graph alone and returns a value.
Query(op, order, r) ==
    /\ out' = [op |-> op, order |-> order, panicked |-> r.panicked, value |-> r.value]
    /\ last' = [op |-> op, result |-> Ok]
    /\ UNCHANGED <<vertices, directed, edge_count, okCount, accepted, allNew, replaced, calls>>

AdjacencyMatrix ==
    \E order \in IterationOrders(DOMAIN vertices) :
        Query("adjacency_matrix", order, adjacency_matrix(vertices, directed, order))

IncidenceMatrix ==
    \E order \in IterationOrders(DOMAIN vertices) :
        Query("incidence_matrix", order, incidence_matrix(vertices, directed, order))

CsrRepresentation ==
    \E order \in IterationOrders(DOMAIN vertices) :
        Query("csr_representation", order, csr_representation(vertices, order))

\* A run builds a graph with at most MaxCalls mutating calls and then makes
\* one query.  The queries take &self and leave the graph as it is, so a run
\* that goes on after a query reaches no other graph, and no other query
\* result, than the runs that make the query last.
Unqueried == out = NoOut

Building == Unqueried /\ calls < MaxCalls

Next ==
    \/ Building /\ \E vertex \in InputVertices : add_vertex(vertex)
    \/ Building /\ \E edge \in Edges : add_edge(edge)
    \/ Unqueried /\ AdjacencyMatrix
    \/ Unqueried /\ IncidenceMatrix
    \/ Unqueried /\ CsrRepresentation

Spec == Init /\ [][Next]_vars

\* ---------------------------------------------------------------- helpers
Range(seq) == {seq[i] : i \in DOMAIN seq}

RECURSIVE SumLens(_, _)
SumLens(vs, S) ==
    IF S = {} THEN 0
    ELSE LET k == CHOOSE x \in S : TRUE
         IN  Len(vs[k]) + SumLens(vs, S \ {k})

\* Number of edges stored across all vertices' edge lists.
TotalStored == SumLens(vertices, DOMAIN vertices)

\* Every edge of the graph's vertices.
StoredEdges == UNION {Range(vertices[k]) : k \in DOMAIN vertices}

\* ---------------------------------------------------------------- claims

\* C1: in either directedness, edge_count equals the number of add_edge
\* calls that returned Ok: a successful call adds exactly 1 (also when the
\* edge is stored twice), a failed call and add_vertex add nothing.
C1_EdgeCountIsOkCalls == edge_count = okCount

\* C1 witness: an undirected graph that accepted two edges (each stored
\* twice) and whose last add_edge call failed.
C1_Witness ==
    /\ ~directed
    /\ edge_count = 2
    /\ TotalStored >= 4
    /\ last.op = "add_edge"
    /\ ~last.result.ok

\* C2: add_edge returns the MissingVertex error whenever either endpoint key
\* is absent from the vertex map, in directed graphs as in undirected ones.
C2_MissingEndpointFails ==
    [][\A edge \in Edges :
         (/\ add_edge(edge)
          /\ (edge.vertex1 \notin DOMAIN vertices
              \/ edge.vertex2 \notin DOMAIN vertices))
         => ~last'.result.ok]_vars

\* C3: add_edge with vertex1's key absent returns the MissingVertex error
\* naming vertex1's key and changes nothing of the graph: not edge_count,
\* not any edge list, not the key set.
C3_MissingVertex1LeavesGraph ==
    [][\A edge \in Edges :
         (add_edge(edge) /\ edge.vertex1 \notin DOMAIN vertices)
         => /\ last'.result = MissingVertex(edge.vertex1)
            /\ edge_count' = edge_count
            /\ vertices' = vertices
            /\ directed' = directed]_vars

\* C3 witness: a graph holding edges on which an add_edge call has just
\* failed for its vertex1 (in a directed graph only vertex1 is looked up).
C3_Witness ==
    /\ directed
    /\ last.op = "add_edge"
    /\ last.result = MissingVertex("Z")
    /\ "Z" \notin DOMAIN vertices
    /\ edge_count = 1
    /\ TotalStored = 1

\* C4: in an undirected graph, add_edge with vertex1 present and vertex2
\* absent returns the MissingVertex error for vertex2 and leaves edge_count
\* alone, but vertex1's edge list has grown by exactly the rejected edge;
\* every other edge list is unchanged.
C4_PartialMutation ==
    [][\A edge \in Edges :
         (/\ add_edge(edge)
          /\ ~directed
          /\ edge.vertex1 \in DOMAIN vertices
          /\ edge.vertex2 \notin DOMAIN vertices)
         => /\ last'.result = MissingVertex(edge.vertex2)
            /\ edge_count' = edge_count
            /\ vertices' = [vertices EXCEPT ![edge.vertex1] = Append(@, edge)]]_vars

\* C4 witness: Vertex::new("A") registered in an undirected graph, then
\* add_edge(A -> Z) rejected: A holds the rejected edge, edge_count is 0.
C4_Witness ==
    /\ ~directed
    /\ allNew
    /\ calls = 2
    /\ last.op = "add_edge"
    /\ last.result = MissingVertex("Z")
    /\ DOMAIN vertices = {"A"}
    /\ vertices["A"] = <<Edge("A", "Z", 1)>>
    /\ edge_count = 0

\* C5: in every state reached by add_vertex and add_edge calls (failed ones
\* included) adjacency_matrix, incidence_matrix and csr_representation
\* return without panicking.  Stated for graphs whose vertices all came from
\* Vertex::new, the case most favourable to the claim.
C5_QueriesAreTotal == allNew => ~out.panicked

\* C6, as claimed: after any sequence of add_vertex and add_edge calls, in
\* an undirected graph both endpoint vertices hold every accepted edge; in a
\* directed graph the source holds it and the destination does not.
C6_Original ==
    \A e \in accepted :
        /\ e.vertex1 \in DOMAIN vertices
        /\ e \in Range(vertices[e.vertex1])
        /\ ~directed =>
              /\ e.vertex2 \in DOMAIN vertices
              /\ e \in Range(vertices[e.vertex2])
        /\ (directed /\ e.vertex2 \in DOMAIN vertices) =>
              e \notin Range(vertices[e.vertex2])

\* C6, amended: as long as no add_vertex has replaced a vertex already in
\* the map, the source vertex holds every accepted edge and, in an undirected
\* graph, so does the destination; in a directed graph the destination's
\* list does not contain it when the edge is no self-loop and every vertex
\* was registered fresh from Vertex::new.
C6_AcceptedEdgesHeld ==
    ~replaced =>
        \A e \in accepted :
            /\ e.vertex1 \in DOMAIN vertices
            /\ e \in Range(vertices[e.vertex1])
            /\ ~directed =>
                  /\ e.vertex2 \in DOMAIN vertices
                  /\ e \in Range(vertices[e.vertex2])
            /\ (/\ directed
                /\ allNew
                /\ e.vertex1 # e.vertex2
                /\ e.vertex2 \in DOMAIN vertices) =>
                  e \notin Range(vertices[e.vertex2])

\* C6 witness: an undirected graph that accepted A - B and then another
\* edge; A and B both hold A - B.
C6_Witness ==
    /\ ~directed
    /\ ~replaced
    /\ Cardinality(accepted) = 2
    /\ Edge("A", "B", 1) \in accepted
    /\ Edge("A", "B", 1) \in Range(vertices["A"])
    /\ Edge("A", "B", 1) \in Range(vertices["B"])

\* Two edges join the same unordered pair of vertices.
SamePair(e, f) == {e.vertex1, e.vertex2} = {f.vertex1, f.vertex2}

\* C7, as claimed: in an undirected graph, for every stored edge (v1, v2, w)
\* the matrix M returned by adjacency_matrix has M[i][j] = M[j][i] = Some(w),
\* also when edges of different weights join the same pair.
C7_Original ==
    (out.op = "adjacency_matrix" /\ ~directed /\ ~out.panicked) =>
        LET M == out.value
            idx == IndexMap(out.order)
        IN  \A e \in StoredEdges :
                /\ M[idx[e.vertex1]][idx[e.vertex2]] = Some(e.weight)
                /\ M[idx[e.vertex2]][idx[e.vertex1]] = Some(e.weight)

\* C7, amended: in an undirected graph, for every stored edge (v1, v2, w)
\* the matrix M returned by adjacency_matrix has M[i][j] = M[j][i] = Some(w'),
\* w' being the weight of the edge joining v1 and v2 that the scan over the
\* edge lists visits last (so w' = w when all such edges weigh the same).
C7_SymmetricLastWeight ==
    (out.op = "adjacency_matrix" /\ ~directed /\ ~out.panicked) =>
        LET M == out.value
            idx == IndexMap(out.order)
            es == ScanEdges(vertices, out.order)
            LastJoining(e) ==
                LET q == CHOOSE q \in DOMAIN es :
                            /\ SamePair(es[q], e)
                            /\ \A r \in DOMAIN es : SamePair(es[r], e) => r <= q
                IN  es[q]
        IN  \A e \in StoredEdges :
                /\ M[idx[e.vertex1]][idx[e.vertex2]] = Some(LastJoining(e).weight)
                /\ M[idx[e.vertex2]][idx[e.vertex1]] = Some(LastJoining(e).weight)

\* C7 witness: adjacency_matrix has returned for an undirected graph in
\* which edges of different weights join A and B.
C7_Witness ==
    /\ out.op = "adjacency_matrix"
    /\ ~directed
    /\ ~out.panicked
    /\ \E e, f \in StoredEdges :
          /\ SamePair(e, f)
          /\ e.vertex1 # e.vertex2
          /\ e.weight # f.weight

\* Rows of column c of matrix M that are not zero.
NonZeroRows(M, c) == {r \in DOMAIN M : M[r][c] # 0}

RECURSIVE SumRows(_, _, _)
SumRows(M, c, R) ==
    IF R = {} THEN 0
    ELSE LET r == CHOOSE x \in R : TRUE
         IN  M[r][c] + SumRows(M, c, R \ {r})

\* C8, as claimed: every column of the matrix returned by incidence_matrix
\* has exactly two nonzero entries, both the edge's weight in an undirected
\* graph, +w in the source row and -w in the destination row (summing to
\* zero) in a directed one; self-loops and reversed edges included.
C8_Original ==
    (out.op = "incidence_matrix" /\ ~out.panicked) =>
        LET M == out.value
            idx == IndexMap(out.order)
            edges == IncidenceEdges(vertices, out.order)
        IN  \A c \in DOMAIN edges :
                LET i == idx[edges[c][1]]
                    j == idx[edges[c][2]]
                    w == edges[c][3]
                IN  /\ Cardinality(NonZeroRows(M, c)) = 2
                    /\ directed =>
                          /\ M[i][c] = w
                          /\ M[j][c] = -w
                          /\ SumRows(M, c, DOMAIN M) = 0
                    /\ ~directed => \A r \in NonZeroRows(M, c) : M[r][c] = w

\* C8, amended: the matrix returned by incidence_matrix has one column per
\* unordered pair of endpoints among the stored edges, with the weight w of
\* the first edge scanned for the pair.  A column joining two different
\* vertices has w in the source row and, in the destination row, w
\* (undirected) or -w (directed); with w # 0 these are its two nonzero
\* entries, and a directed column sums to zero.  A self-loop's column has
\* one entry, w (undirected) or -w (directed), so at most one nonzero
\* entry.  All other rows of a column are 0.
C8_ColumnShape ==
    (out.op = "incidence_matrix" /\ ~out.panicked) =>
        LET M == out.value
            idx == IndexMap(out.order)
            edges == IncidenceEdges(vertices, out.order)
            es == ScanEdges(vertices, out.order)
        IN  /\ Len(edges) = Cardinality({{e.vertex1, e.vertex2} : e \in StoredEdges})
            /\ \A r \in DOMAIN M : DOMAIN M[r] = DOMAIN edges
            /\ \A c \in DOMAIN edges :
                LET i == idx[edges[c][1]]
                    j == idx[edges[c][2]]
                    w == edges[c][3]
                    first == CHOOSE q \in DOMAIN es :
                                /\ {es[q].vertex1, es[q].vertex2}
                                      = {edges[c][1], edges[c][2]}
                                /\ \A r \in DOMAIN es :
                                      SamePair(es[r], es[q]) => q <= r
                IN  /\ w = es[first].weight
                    /\ \A r \in DOMAIN M \ {i, j} : M[r][c] = 0
                    /\ i # j =>
                          /\ M[i][c] = w
                          /\ M[j][c] = IF directed THEN -w ELSE w
                          /\ w # 0 => NonZeroRows(M, c) = {i, j}
                          /\ directed => SumRows(M, c, DOMAIN M) = 0
                    /\ i = j =>
                          /\ M[i][c] = IF directed THEN -w ELSE w
                          /\ Cardinality(NonZeroRows(M, c)) <= 1

\* C8 witness: incidence_matrix has returned a matrix with a self-loop's
\* column and the column of an edge of nonzero weight between two vertices.
C8_Witness ==
    /\ out.op = "incidence_matrix"
    /\ ~out.panicked
    /\ LET edges == IncidenceEdges(vertices, out.order)
       IN  /\ \E c \in DOMAIN edges : edges[c][1] = edges[c][2] /\ edges[c][3] # 0
           /\ \E c \in DOMAIN edges : edges[c][1] # edges[c][2] /\ edges[c][3] # 0

\* C9: csr_representation returns (adjacents, indices) with indices of length
\* vertex_count + 1 starting at 0, consecutive differences equal to the
\* lengths of the vertices' edge lists in index order, the last entry equal
\* to the number of stored edges, and adjacents of that length plus one,
\* its only None being the last entry.
C9_CsrShape ==
    out.op = "csr_representation" =>
        LET adjacents == out.value.adjacents
            indices == out.value.indices
            n == Cardinality(DOMAIN vertices)
        IN  /\ ~out.panicked
            /\ Len(indices) = n + 1
            /\ indices[1] = 0
            /\ \A i \in 1..n :
                  indices[i + 1] - indices[i] = Len(vertices[out.order[i]])
            /\ indices[n + 1] = TotalStored
            /\ Len(adjacents) = indices[n + 1] + 1
            /\ adjacents[Len(adjacents)] = None
            /\ \A p \in 1..(Len(adjacents) - 1) : adjacents[p] # None

\* C9 witness: csr_representation has returned for a graph in which two
\* vertices hold edges, three edges or more in all.
C9_Witness ==
    /\ out.op = "csr_representation"
    /\ TotalStored >= 3
    /\ \E k1, k2 \in DOMAIN vertices :
          k1 # k2 /\ vertices[k1] # <<>> /\ vertices[k2] # <<>>

\* C10: when every vertex came from Vertex::new, the edges stored across all
\* edge lists number at most 2 * edge_count, failed add_edge calls included,
\* so csr_representation's adjacents fits the 2 * edge_count + 1 it reserves.
C10_StoredWithinCapacity ==
    allNew =>
        /\ TotalStored <= 2 * edge_count
        /\ (out.op = "csr_representation"
            => Len(out.value.adjacents) <= 2 * edge_count + 1)
====
